---- MODULE Spec2Model ----
(***************************************************************************)
(* The M-Pesa payment relay: the Express application of src/index.js and   *)
(* of its second revision src/unnamed/part_000.  One process, a shared     *)
(* connection pool set by an asynchronous connect, the audit middleware,   *)
(* the /initiate-payment and /callback handlers, the centralized error     *)
(* handler, and the two tables the handlers write.  Every await on the     *)
(* provider or on the database is a suspension point, so every such call   *)
(* is split in the step that issues it and the step that resumes after it. *)
(***************************************************************************)
EXTENDS Integers, Sequences, FiniteSets, Bags, TLC

VARIABLES
    rev,            \* which of the two source files is running
    proc,           \* "loading" | "listening" | "exited"
    pool,           \* the module variable `pool`: PoolUnset until sql.connect resolves
    transactions,   \* the transactions table, in insertion order
    api_logs,       \* the api_logs table, in insertion order
    reqs,           \* the bag of exchanges: in flight, or answered and not yet dropped
    nextCheckout    \* the provider's count of checkout identifiers handed out

vars == <<rev, proc, pool, transactions, api_logs, reqs, nextCheckout>>

----------------------------------------------------------------------------
(* Bounds of the model *)

\* exchanges the process holds at once, in flight or answered
MaxInFlight == 1

\* rows the api_logs table takes before its INSERT fails
MaxLogs == 1

\* checkouts the provider accepts before its push endpoint fails
MaxCheckouts == 1

----------------------------------------------------------------------------
(* Values *)

Revisions == {"index.js", "part_000"}

Undefined == "<undefined>"
Null      == "<null>"
NoError   == "<none>"

PoolUnset == "undefined"
PoolReady == "ConnectionPool"

TokenError == "Failed to generate M-Pesa token"
PushError  == "Failed to initiate STK Push"
PoolError  == "Cannot read properties of undefined (reading 'request')"
StoreError == "RequestError"

----------------------------------------------------------------------------
(* Request bodies.  A JSON body is a record of the fields the handlers     *)
(* read; a field the client left out reads as Undefined.                   *)

Fields == {"phone_number", "amount", "order_id", "customer_email",
           "ResultCode", "CheckoutRequestID", "MpesaReceiptNumber"}

EmptyBody == [f \in Fields |-> Undefined]

\* the values the validators of express-validator accept, among those sent
MobilePhones == {"254712345678"}
Decimals     == {"100"}
Emails       == {"a@b.com"}

PhoneInputs   == MobilePhones \cup {Undefined}
AmountInputs  == Decimals \cup {"ten", Undefined}
OrderInputs   == {"ORD1", "", Undefined}
EmailInputs   == Emails \cup {Undefined}

isMobilePhone(v) == v \in MobilePhones
isDecimal(v)     == v \in Decimals
isStringNotEmpty(v) == v # Undefined /\ v # ""
isEmail(v)       == v \in Emails

\* the chain without its isEmail() check
ValidationErrorsSkipEmail(b) ==
    {f \in {"phone_number"}   : ~isMobilePhone(b.phone_number)}
    \cup {f \in {"amount"}    : ~isDecimal(b.amount)}
    \cup {f \in {"order_id"}  : ~isStringNotEmpty(b.order_id)}

\* validationResult(req).array(): the fields whose chain failed
ValidationErrors(b) ==
    {f \in {"phone_number"}   : ~isMobilePhone(b.phone_number)}
    \cup {f \in {"amount"}    : ~isDecimal(b.amount)}
    \cup {f \in {"order_id"}  : ~isStringNotEmpty(b.order_id)}
    \cup {f \in {"customer_email"} : ~isEmail(b.customer_email)}

ScenarioA == [EmptyBody EXCEPT !.phone_number = "254712345678", !.amount = "100",
                               !.order_id = "ORD1", !.customer_email = "a@b.com"]

\* Scenario A and every body that differs from it in one field
InitiateBodies ==
    {[ScenarioA EXCEPT !.phone_number = v] : v \in PhoneInputs}
    \cup {[ScenarioA EXCEPT !.amount = v] : v \in AmountInputs}
    \cup {[ScenarioA EXCEPT !.order_id = v] : v \in OrderInputs}
    \cup {[ScenarioA EXCEPT !.customer_email = v] : v \in EmailInputs}

CheckoutId(n) == "ws_" \o ToString(n)

CallbackBody(rc, id, rn) ==
    [EmptyBody EXCEPT !.ResultCode = rc, !.CheckoutRequestID = id,
                      !.MpesaReceiptNumber = rn]

\* Scenarios B, C and D, and the cases next to them
CallbackBodies ==
    {CallbackBody("0", CheckoutId(1), "R1"),
     CallbackBody("1032", CheckoutId(1), Undefined),
     CallbackBody("0", CheckoutId(1), ""),
     CallbackBody("0", Undefined, "R1"),
     CallbackBody(Undefined, CheckoutId(1), "R1"),
     CallbackBody("0", "ws_unknown", "R1")}

Paths == {"/initiate-payment", "/callback", "/health"}

BodiesOf(path) ==
    CASE path = "/initiate-payment" -> InitiateBodies
      [] path = "/callback"         -> CallbackBodies
      [] OTHER                      -> {EmptyBody}

----------------------------------------------------------------------------
(* Exchanges.  `statusCode` and `response_payload` are res.statusCode and   *)
(* res.locals.response_payload; `error` is the message of the error the     *)
(* handler caught; the counters record the calls the exchange has issued.   *)

NoPayload == [text |-> Undefined, data |-> Undefined, transactionId |-> 0,
              errors |-> {}]

NewReq(path, body) ==
    [path |-> path, body |-> body, pc |-> "audit",
     statusCode |-> 200, response_payload |-> NoPayload,
     error |-> NoError, checkout |-> Undefined, dbres |-> 0,
     tokenCalls |-> 0, pushCalls |-> 0, inserts |-> 0, updates |-> 0]

Exchanges == BagToSet(reqs)
Answered  == {q \in Exchanges : q.pc = "done"}
At(pc)    == {q \in Exchanges : q.pc = pc}

\* the exchange q moves on as q2
Replace(q, q2) == (reqs (-) SetToBag({q})) (+) SetToBag({q2})

\* res.status(code).json(payload) or .send(payload): the patched send stores the
\* payload in res.locals and the response leaves
Send(q, code, payload) ==
    [q EXCEPT !.pc = "done", !.statusCode = code, !.response_payload = payload]

\* app.use((err, req, res, next) => res.status(500).json(...))
ErrorHandler(q) ==
    Send(q, 500, [NoPayload EXCEPT !.text = "Internal Server Error"])

----------------------------------------------------------------------------
(* Startup *)

Init ==
    /\ rev \in Revisions
    /\ proc = "loading"
    /\ pool = PoolUnset
    /\ transactions = <<>>
    /\ api_logs = <<>>
    /\ reqs = EmptyBag
    /\ nextCheckout = 1

\* module load: initializeDb() has started the connect; the environment is
\* checked and the listener is bound without waiting for it
Listen ==
    /\ proc = "loading"
    /\ \E envOk \in BOOLEAN : proc' = IF envOk THEN "listening" ELSE "exited"
    /\ UNCHANGED <<rev, pool, transactions, api_logs, reqs, nextCheckout>>

\* await sql.connect(config) settles
InitializeDb ==
    /\ proc = "listening"
    /\ pool = PoolUnset
    /\ \E ok \in BOOLEAN :
          IF ok THEN pool' = PoolReady /\ proc' = proc
                ELSE pool' = pool /\ proc' = "exited"
    /\ UNCHANGED <<rev, transactions, api_logs, reqs, nextCheckout>>

----------------------------------------------------------------------------
(* POST /initiate-payment *)

\* the catch of the handler, given the thrown error's message
InitiateCatch(q, msg) ==
    LET e == [q EXCEPT !.error = msg]
    IN  IF rev = "part_000" /\ msg = TokenError
            THEN Send(e, 503, [NoPayload EXCEPT !.text =
                     "Service temporarily unavailable. Please try again later."])
        ELSE IF rev = "part_000" /\ msg = PushError
            THEN Send(e, 502, [NoPayload EXCEPT !.text =
                     "Payment initiation failed. Please try again later."])
        ELSE ErrorHandler(e)

\* validation, then generateMpesaToken() up to its await
InitiatePayment(q) ==
    LET errors == ValidationErrors(q.body)
    IN  IF errors # {}
           THEN Send(q, 400, [NoPayload EXCEPT !.errors = errors])
           ELSE [q EXCEPT !.pc = "token", !.tokenCalls = @ + 1]

\* the token request settles; on success initiateSTKPush() up to its await
TokenReturn ==
    /\ proc = "listening"
    /\ \E q \in At("token") : \E ok \in BOOLEAN :
          reqs' = Replace(q, IF ok THEN [q EXCEPT !.pc = "push", !.pushCalls = @ + 1]
                                   ELSE InitiateCatch(q, TokenError))
    /\ UNCHANGED <<rev, proc, pool, transactions, api_logs, nextCheckout>>

\* the handler answering as soon as the provider accepts, without the INSERT
StartInsertRespondsFirst(q) ==
    Send(q, 200, [NoPayload EXCEPT !.text = "Payment initiated successfully",
                                   !.data = q.checkout])

\* after the push: pool.request() and the INSERT up to its await
StartInsert(q) ==
    IF pool = PoolUnset THEN InitiateCatch(q, PoolError)
                        ELSE [q EXCEPT !.pc = "insert"]

\* the push request settles
PushReturn ==
    /\ proc = "listening"
    /\ \E q \in At("push") : \E ok \in {nextCheckout <= MaxCheckouts, FALSE} :
          IF ok THEN /\ nextCheckout' = nextCheckout + 1
                     /\ reqs' = Replace(q, StartInsert(
                                   [q EXCEPT !.checkout = CheckoutId(nextCheckout)]))
                ELSE /\ nextCheckout' = nextCheckout
                     /\ reqs' = Replace(q, InitiateCatch(q, PushError))
    /\ UNCHANGED <<rev, proc, pool, transactions, api_logs>>

\* the row the INSERT writes; the store assigns id
NewTransaction(q) ==
    [id |-> Len(transactions) + 1,
     transaction_id |-> q.checkout,
     phone_number |-> q.body.phone_number,
     amount |-> q.body.amount,
     status |-> "Pending",
     description |-> "Payment for Order " \o q.body.order_id,
     mpesa_receipt_number |-> Null]

\* the store runs the INSERT, or fails it
InsertExec ==
    /\ proc = "listening"
    /\ \E q \in At("insert") : \E ok \in BOOLEAN :
          IF ok THEN /\ transactions' = Append(transactions, NewTransaction(q))
                     /\ reqs' = Replace(q, [q EXCEPT !.pc = "inserted",
                                               !.inserts = @ + 1,
                                               !.dbres = Len(transactions) + 1])
                ELSE /\ transactions' = transactions
                     /\ reqs' = Replace(q, [q EXCEPT !.pc = "inserted",
                                                     !.error = StoreError])
    /\ UNCHANGED <<rev, proc, pool, api_logs, nextCheckout>>

\* the handler after await request.query(INSERT)
AfterInsert(q) ==
    IF q.error # NoError
       THEN InitiateCatch(q, q.error)
       ELSE Send(q, 200, [NoPayload EXCEPT
                             !.text = "Payment initiated successfully",
                             !.data = q.checkout,
                             !.transactionId = q.dbres])

InsertReturn ==
    /\ proc = "listening"
    /\ \E q \in At("inserted") : reqs' = Replace(q, AfterInsert(q))
    /\ UNCHANGED <<rev, proc, pool, transactions, api_logs, nextCheckout>>

----------------------------------------------------------------------------
(* POST /callback *)

\* JavaScript's !v, over the values a field takes here
Falsy(v) == v = Undefined \/ v = ""

\* !ResultCode || !CheckoutRequestID, in the revision that has the check
MissingCallbackData(b) ==
    rev = "part_000" /\ (Falsy(b.ResultCode) \/ Falsy(b.CheckoutRequestID))

\* the status taken from the presence of a receipt instead of ResultCode
paymentStatusFromReceipt(b) ==
    IF b.MpesaReceiptNumber # Undefined THEN "Success" ELSE "Failed"

\* ResultCode === '0' ? 'Success' : 'Failed'
paymentStatus(b) == IF b.ResultCode = "0" THEN "Success" ELSE "Failed"

\* the value bound to @mpesa_receipt_number; the driver sends undefined as NULL
ReceiptParam(b) ==
    IF rev = "part_000"
        THEN IF Falsy(b.MpesaReceiptNumber) THEN Null ELSE b.MpesaReceiptNumber
        ELSE IF b.MpesaReceiptNumber = Undefined THEN Null ELSE b.MpesaReceiptNumber

\* WHERE transaction_id = @transaction_id; a NULL parameter equals nothing
Matches(row, b) ==
    b.CheckoutRequestID # Undefined /\ row.transaction_id = b.CheckoutRequestID

\* the handler up to await request.query(UPDATE)
Callback(q) ==
    IF MissingCallbackData(q.body)
       THEN Send(q, 400, [NoPayload EXCEPT !.text = "Missing required callback data"])
    ELSE IF pool = PoolUnset
       THEN ErrorHandler([q EXCEPT !.error = PoolError])
    ELSE [q EXCEPT !.pc = "update"]

\* UPDATE transactions SET ... WHERE transaction_id = @transaction_id
UpdateRows(b) ==
    [i \in DOMAIN transactions |->
        IF Matches(transactions[i], b)
           THEN [transactions[i] EXCEPT !.status = paymentStatus(b),
                                        !.mpesa_receipt_number = ReceiptParam(b)]
           ELSE transactions[i]]

rowsAffected(b) == Cardinality({i \in DOMAIN transactions : Matches(transactions[i], b)})

\* the store runs the UPDATE, or fails it
UpdateExec ==
    /\ proc = "listening"
    /\ \E q \in At("update") : \E ok \in BOOLEAN :
          IF ok THEN /\ transactions' = UpdateRows(q.body)
                     /\ reqs' = Replace(q, [q EXCEPT !.pc = "updated",
                                               !.updates = @ + 1,
                                               !.dbres = rowsAffected(q.body)])
                ELSE /\ transactions' = transactions
                     /\ reqs' = Replace(q, [q EXCEPT !.pc = "updated",
                                                     !.error = StoreError])
    /\ UNCHANGED <<rev, proc, pool, api_logs, nextCheckout>>

\* the handler after await request.query(UPDATE)
AfterUpdate(q) ==
    IF q.error # NoError
       THEN ErrorHandler(q)
    ELSE IF rev = "part_000" /\ q.dbres = 0
       THEN Send(q, 404, [NoPayload EXCEPT !.text = "Transaction not found"])
    ELSE Send(q, 200, [NoPayload EXCEPT !.text =
                "Callback received and transaction status updated"])

UpdateReturn ==
    /\ proc = "listening"
    /\ \E q \in At("updated") : reqs' = Replace(q, AfterUpdate(q))
    /\ UNCHANGED <<rev, proc, pool, transactions, api_logs, nextCheckout>>

----------------------------------------------------------------------------
(* Routing and the audit middleware, which is registered before the routes *)

\* no route matches: Express answers 404
NotFound(q) == Send(q, 404, [NoPayload EXCEPT !.text = "Cannot GET"])

\* next() out of the audit middleware: the route's handler runs up to its
\* first await
CallNext(q) ==
    CASE q.path = "/initiate-payment" -> InitiatePayment(q)
      [] q.path = "/callback"         -> Callback(q)
      [] OTHER                        -> NotFound(q)

\* a catch that hands the error on: next(err)
AuditCatchPropagates(q) == ErrorHandler(q)

\* catch (err) { console.error(...) } and then next()
AuditCatch(q) == CallNext(q)

\* req.originalUrl.startsWith('/health')
StartsWithHealth(path) == path = "/health"

\* logEntry: built from req and res as they are when the middleware runs.  The
\* request_payload column (the request body as text) is written and never read,
\* and is not kept here.
LogEntry(q) ==
    [endpoint |-> q.path,
     response_payload |-> q.response_payload, status_code |-> q.statusCode]

\* the audit middleware up to its await
AuditStart(q) ==
    IF StartsWithHealth(q.path) THEN CallNext(q)
    ELSE IF pool = PoolUnset THEN AuditCatch(q)      \* pool.request() throws
    ELSE q

\* a request arrives: body-parser, the send patch, the audit middleware.  An
\* answered exchange is dropped to make room.
Receive ==
    /\ proc = "listening"
    /\ \E path \in Paths : \E body \in BodiesOf(path) :
          LET q == AuditStart(NewReq(path, body))
          IN  \/ /\ BagCardinality(reqs) < MaxInFlight
                 /\ reqs' = reqs (+) SetToBag({q})
              \/ /\ BagCardinality(reqs) = MaxInFlight
                 /\ \E d \in Answered : reqs' = Replace(d, q)
    /\ UNCHANGED <<rev, proc, pool, transactions, api_logs, nextCheckout>>

\* await request.query(INSERT INTO api_logs ...) settles, then next()
AuditLog ==
    /\ proc = "listening"
    /\ \E q \in At("audit") : \E ok \in {Len(api_logs) < MaxLogs, FALSE} :
          IF ok THEN /\ api_logs' = Append(api_logs, LogEntry(q))
                     /\ reqs' = Replace(q, CallNext(q))
                ELSE /\ api_logs' = api_logs
                     /\ reqs' = Replace(q, AuditCatch(q))
    /\ UNCHANGED <<rev, proc, pool, transactions, nextCheckout>>

----------------------------------------------------------------------------

Next ==
    \/ Listen
    \/ InitializeDb
    \/ Receive
    \/ AuditLog
    \/ TokenReturn
    \/ PushReturn
    \/ InsertExec
    \/ InsertReturn
    \/ UpdateExec
    \/ UpdateReturn

Spec == Init /\ [][Next]_vars

TypeOK ==
    /\ rev \in Revisions
    /\ proc \in {"loading", "listening", "exited"}
    /\ pool \in {PoolUnset, PoolReady}
    /\ Len(transactions) <= MaxCheckouts
    /\ Len(api_logs) <= MaxLogs
    /\ BagCardinality(reqs) <= MaxInFlight

----------------------------------------------------------------------------
(* Vocabulary of the properties *)

IsInitiate(q) == q.path = "/initiate-payment"
IsCallback(q) == q.path = "/callback"

\* a body missing one of the four fields, or with one that fails its format
MissingOrMalformed(b) ==
    \/ b.phone_number \notin MobilePhones
    \/ b.amount \notin Decimals
    \/ b.order_id \in {Undefined, ""}
    \/ b.customer_email \notin Emails

\* the rows keyed by a checkout identifier
RowsOf(id) == {i \in DOMAIN transactions : transactions[i].transaction_id = id}

\* this step resumes the exchange q
Took(q) == CopiesIn(q, reqs') < CopiesIn(q, reqs)

\* ... and leaves it as d
Became(q, d) == reqs' = Replace(q, d)

----------------------------------------------------------------------------
(* C1 *)

\* C1: for a valid POST /initiate-payment that fails, the failure class decides
\* the status: token failure 503, push failure 502, store failure 500.
C1_FailureClassDecidesStatus ==
    \A q \in Answered :
        IsInitiate(q) /\ ~MissingOrMalformed(q.body) =>
            /\ q.error = TokenError => q.statusCode = 503
            /\ q.error = PushError  => q.statusCode = 502
            /\ q.error = StoreError => q.statusCode = 500

----------------------------------------------------------------------------
(* C2 *)

\* C2: a POST /initiate-payment whose body misses a field or fails a format
\* constraint is answered 400, and issues neither the token request nor the
\* push request nor an INSERT.
C2_InvalidInitiateRejected ==
    \A q \in Exchanges :
        IsInitiate(q) /\ MissingOrMalformed(q.body) =>
            /\ q.pc \in {"audit", "done"}
            /\ q.tokenCalls = 0 /\ q.pushCalls = 0 /\ q.inserts = 0
            /\ q.pc = "done" => q.statusCode = 400 /\ q.response_payload.errors # {}

\* an invalid initiation has been answered 400
C2_Witness ==
    \E q \in Answered :
        /\ IsInitiate(q) /\ MissingOrMalformed(q.body)
        /\ q.statusCode = 400

----------------------------------------------------------------------------
(* C3 *)

\* C3 as stated: every valid POST /initiate-payment, once answered, has created
\* exactly one row keyed by the provider's checkout identifier.
C3_OneRowPerValidRequest ==
    \A q \in Answered :
        IsInitiate(q) /\ ~MissingOrMalformed(q.body) =>
            q.inserts = 1 /\ Cardinality(RowsOf(q.checkout)) = 1

C3_AnsweredOk ==
    \A q \in Answered :
        IsInitiate(q) /\ ~MissingOrMalformed(q.body) =>
            /\ q.statusCode = 200 =>
                  /\ q.inserts = 1
                  /\ q.checkout # Undefined
                  /\ q.response_payload.data = q.checkout
                  /\ Cardinality(RowsOf(q.checkout)) = 1
                  /\ \A i \in RowsOf(q.checkout) :
                        q.response_payload.transactionId = transactions[i].id
            /\ q.error \in {TokenError, PushError, PoolError} =>
                  /\ q.statusCode # 200
                  /\ q.inserts = 0
                  /\ RowsOf(q.checkout) = {}

C3_CreatedPending ==
    \A i \in DOMAIN transactions' :
        i \notin DOMAIN transactions =>
            /\ transactions'[i].status = "Pending"
            /\ transactions'[i].mpesa_receipt_number = Null
            /\ transactions'[i].id = i

\* C3, amended: a valid POST /initiate-payment answered 200 has inserted exactly
\* one row, keyed by the provider's checkout identifier and Pending when
\* inserted, before the response; one that fails at the token, at the push or at
\* pool.request() is answered with an error and has inserted none.
C3_OneRowPerAcceptedRequest ==
    []C3_AnsweredOk /\ [][C3_CreatedPending]_vars

\* Scenario A: answered 200 with its row in the table
C3_Witness ==
    \E q \in Answered :
        /\ IsInitiate(q) /\ q.body = ScenarioA
        /\ q.statusCode = 200
        /\ \E i \in RowsOf(q.checkout) : transactions[i].status = "Pending"

----------------------------------------------------------------------------
(* C4 *)

\* the row a matched callback leaves, as the claim has it
C4_RowAfter(row, b, receipt) ==
    [row EXCEPT !.status = IF b.ResultCode = "0" THEN "Success" ELSE "Failed",
                !.mpesa_receipt_number = receipt]

C4_ClaimedReceipt(b) ==
    IF b.MpesaReceiptNumber = Undefined THEN Null ELSE b.MpesaReceiptNumber

\* C4 as stated: a callback whose CheckoutRequestID matches a row sets the row's
\* status from ResultCode alone and its receipt to MpesaReceiptNumber (null when
\* absent), and is answered 200.
C4_MatchedCallbackUpdates ==
    [][\A q \in Exchanges :
          /\ q.pc = "update" /\ Took(q) /\ RowsOf(q.body.CheckoutRequestID) # {} =>
               /\ \A i \in RowsOf(q.body.CheckoutRequestID) :
                     transactions'[i] =
                        C4_RowAfter(transactions[i], q.body, C4_ClaimedReceipt(q.body))
               /\ \E d \in BagToSet(reqs') : Became(q, d) /\ d.error = NoError
          /\ q.pc = "updated" /\ Took(q) /\ RowsOf(q.body.CheckoutRequestID) # {} =>
               \E d \in BagToSet(reqs') : Became(q, d) /\ d.statusCode = 200]_vars

\* what the handler binds: an empty receipt is stored as null by the revision
\* that writes MpesaReceiptNumber || null
C4_StoredReceipt(b) ==
    IF b.MpesaReceiptNumber = Undefined \/ (rev = "part_000" /\ b.MpesaReceiptNumber = "")
       THEN Null ELSE b.MpesaReceiptNumber

\* C4, amended: when the UPDATE of a callback runs, every row it matches gets a
\* status that depends on ResultCode alone ("0" Success, otherwise Failed) and
\* the receipt MpesaReceiptNumber, null when absent (and when empty, in the
\* revision that writes MpesaReceiptNumber || null); no other row and no other
\* column changes; the answer is 200 when a row matched.  When the UPDATE fails
\* no row changes and the answer is 500.
C4_CompletedCallbackUpdates ==
    [][\A q \in Exchanges :
          /\ q.pc = "update" /\ Took(q) =>
               \E d \in BagToSet(reqs') :
                  /\ Became(q, d)
                  /\ d.pc = "updated"
                  /\ \/ d.error = StoreError /\ transactions' = transactions
                     \/ /\ d.error = NoError
                        /\ d.dbres = Cardinality(RowsOf(q.body.CheckoutRequestID))
                        /\ DOMAIN transactions' = DOMAIN transactions
                        /\ \A i \in DOMAIN transactions :
                              transactions'[i] =
                                 IF i \in RowsOf(q.body.CheckoutRequestID)
                                    THEN C4_RowAfter(transactions[i], q.body,
                                                     C4_StoredReceipt(q.body))
                                    ELSE transactions[i]
          /\ q.pc = "updated" /\ Took(q) =>
               \E d \in BagToSet(reqs') :
                  /\ Became(q, d)
                  /\ d.pc = "done"
                  /\ q.error = StoreError => d.statusCode = 500
                  /\ q.error = NoError /\ q.dbres > 0 => d.statusCode = 200]_vars

\* Scenario B: answered 200, the row is Success with receipt R1
C4_Witness ==
    \E q \in Answered :
        /\ IsCallback(q) /\ q.body = CallbackBody("0", CheckoutId(1), "R1")
        /\ q.statusCode = 200 /\ q.dbres = 1
        /\ \E i \in RowsOf(CheckoutId(1)) :
              /\ transactions[i].status = "Success"
              /\ transactions[i].mpesa_receipt_number = "R1"

----------------------------------------------------------------------------
(* C5 *)

\* C5: a POST /callback lacking ResultCode or CheckoutRequestID is answered 400
\* and issues no UPDATE.
C5_MissingFieldsRejected ==
    \A q \in Exchanges :
        /\ IsCallback(q)
        /\ (q.body.ResultCode = Undefined \/ q.body.CheckoutRequestID = Undefined)
        => /\ q.pc \in {"audit", "done"}
           /\ q.updates = 0
           /\ q.pc = "done" => q.statusCode = 400

----------------------------------------------------------------------------
(* C6 *)

\* C6: a POST /callback whose UPDATE matched no row is answered 404, never 200.
C6_UnmatchedIsNotFound ==
    \A q \in Answered :
        IsCallback(q) /\ q.updates = 1 /\ q.dbres = 0 => q.statusCode = 404

----------------------------------------------------------------------------
(* C7 *)

\* C7: once a row's status is Success or Failed, no step changes it.
C7_TerminalStatusIsFinal ==
    [][\A i \in DOMAIN transactions :
          transactions[i].status \in {"Success", "Failed"} =>
              transactions'[i].status = transactions[i].status]_vars

----------------------------------------------------------------------------
(* C8 *)

\* C8: every api_logs row is written after the response of its exchange, so it
\* holds the payload and the status of a response that was sent; /health
\* exchanges write none.
C8_AuditRowReflectsResponse ==
    /\ \A i \in DOMAIN api_logs :
          /\ api_logs[i].response_payload # NoPayload
          /\ ~StartsWithHealth(api_logs[i].endpoint)
    /\ \A q \in Answered :
          ~StartsWithHealth(q.path) /\ Len(api_logs) = MaxLogs =>
              \E i \in DOMAIN api_logs :
                  /\ api_logs[i].endpoint = q.path
                  /\ api_logs[i].status_code = q.statusCode
                  /\ api_logs[i].response_payload = q.response_payload

----------------------------------------------------------------------------
(* C9 *)

\* every 500 comes from a failure of the handler itself
C9_ErrorsAreTheHandlers ==
    \A q \in Answered :
        q.statusCode = 500 => q.error \in {TokenError, PushError, PoolError, StoreError}

\* when the audit INSERT settles, the exchange goes on to its route
C9_AuditOutcomeIgnored ==
    \A q \in Exchanges :
        q.pc = "audit" /\ Took(q) =>
            /\ Became(q, CallNext(q))
            /\ transactions' = transactions

\* C9: whether the api_logs INSERT succeeds or throws, the exchange goes on to
\* its route from the same state: the response and the transactions table do
\* not depend on the outcome, and no response is an error because of it.
C9_AuditFailureInvisible ==
    []C9_ErrorsAreTheHandlers /\ [][C9_AuditOutcomeIgnored]_vars

\* an exchange answered 200 although no api_logs row was ever written
C9_Witness ==
    \E q \in Answered :
        /\ ~StartsWithHealth(q.path)
        /\ q.statusCode = 200
        /\ pool = PoolReady
        /\ api_logs = <<>>

----------------------------------------------------------------------------
(* C10 *)

\* C10: no handler evaluates pool.request() while the pool is unset.
C10_PoolSetBeforeUse ==
    \A q \in Exchanges : q.error # PoolError

====
